---- MODULE Spec2Model ----
(***************************************************************************)
(* A model of cleaningbenchmark/NoiseModels/NoiseModel.py (Python 2).       *)
(*                                                                          *)
(* The state is the NoiseModel instances a caller holds, plus a record of   *)
(* the most recent call (its arguments and outcome) and, for apply, a trace *)
(* of what the call did on the way.                                         *)
(* One action per operation: the constructor, apply, reshape, and a         *)
(* caller's attribute assignment.                                           *)
(*                                                                          *)
(* Conventions                                                              *)
(*   - Python lists and tuples are sequences; their ELEMENTS keep Python's  *)
(*     0-based values (row index 0 is the first row).                       *)
(*   - A probability is an exact fraction <<num, den>> with den > 0.        *)
(*   - A cell holds a number of halves: the cell v stands for v/2, so that  *)
(*     a cast to integer is not the identity.                               *)
(*   - An attribute that may be missing is a sequence of length 0 or 1.     *)
(***************************************************************************)
EXTENDS Integers, Sequences, FiniteSets, TLC

VARIABLES models, last, effect

vars == <<models, last, effect>>

(***************************************************************************)
(* Bounds of the model.                                                     *)
(***************************************************************************)
MaxRows == 2
MaxCols == 2
MaxSeed == 1
MaxSampleRows == 5

(***************************************************************************)
(* Python helpers.                                                          *)
(***************************************************************************)
\* range(0, n): the list [0, 1, ..., n-1], empty when n <= 0.
Range(n) == [k \in 1..n |-> k - 1]

Elems(s) == {s[k] : k \in 1..Len(s)}

RECURSIVE InsertSorted(_, _)
InsertSorted(x, s) ==
    IF s = <<>> THEN <<x>>
    ELSE IF x <= Head(s) THEN <<x>> \o s
    ELSE <<Head(s)>> \o InsertSorted(x, Tail(s))

\* sorted(s) for a list of integers.
RECURSIVE Sorted(_)
Sorted(s) == IF s = <<>> THEN <<>> ELSE InsertSorted(Head(s), Sorted(Tail(s)))

\* A slice bound as Python normalises it: negative bounds count from the end,
\* and the result is clamped to [0, len].
SliceBound(b, len) ==
    LET a == IF b < 0 THEN b + len ELSE b
    IN  IF a < 0 THEN 0 ELSE IF a > len THEN len ELSE a

\* s[lo:hi]
PySlice(s, lo, hi) ==
    LET a == SliceBound(lo, Len(s))
        b == SliceBound(hi, Len(s))
    IN  IF a >= b THEN <<>> ELSE SubSeq(s, a + 1, b)

\* s[lo:]
PySliceFrom(s, lo) == PySlice(s, lo, Len(s))

\* Mutant of PyRound: int(x) without the rounding.
PyTruncate(n, d) == IF n >= 0 THEN n \div d ELSE 0 - ((0 - n) \div d)

\* round(x) of Python 2 for the fraction n/d (d > 0): to the nearest integer,
\* a tie going away from zero.
PyRound(n, d) ==
    IF n >= 0 THEN (2 * n + d) \div (2 * d)
    ELSE 0 - ((2 * (0 - n) + d) \div (2 * d))

\* What random.shuffle can leave in a list that held range(0, n): any order.
RECURSIVE Orders(_)
Orders(S) ==
    IF S = {} THEN {<<>>}
    ELSE UNION {{<<x>> \o p : p \in Orders(S \ {x})} : x \in S}

Shuffles(n) == Orders(0..(n - 1))

(***************************************************************************)
(* Datasets: a two-dimensional container of a kind, ndarray or DataFrame.   *)
(***************************************************************************)
Kinds == {"ndarray", "DataFrame"}

NoneCell == 0 - 1

MkData(kind, r, c, seed) ==
    [kind |-> kind, nrows |-> r, ncols |-> c,
     cells |-> [i \in 0..(r - 1) |-> [j \in 0..(c - 1) |-> seed + i * c + j]]]

NoData == [kind |-> "none", nrows |-> 0, ncols |-> 0, cells |-> <<>>]

Datasets ==
    {MkData(k, r, c, s) : k \in Kinds, r \in 1..MaxRows, c \in 1..MaxCols,
                          s \in 0..MaxSeed}

\* np.shape(X)
NpShape(X) == <<X.nrows, X.ncols>>

\* np.empty(X.shape, dtype=object) / pd.DataFrame(index=X.index, columns=X.columns)
EmptyLike(X) ==
    [i \in 0..(X.nrows - 1) |-> [j \in 0..(X.ncols - 1) |-> NoneCell]]

\* Mutant of ReadRows: the rows are read in ascending position order, as a
\* boolean mask would.
ReadRowsAscending(cells, idx) == [k \in 1..Len(idx) |-> cells[Sorted(idx)[k]]]

\* X[idx,:] / X.iloc[idx,:]: the rows at the listed positions, in list order.
ReadRows(cells, idx) == [k \in 1..Len(idx) |-> cells[idx[k]]]

\* data[idx,:] = rows: the k-th row goes to position idx[k]; a position listed
\* twice keeps the last row written to it.
WriteRows(cells, idx, rows) ==
    [i \in DOMAIN cells |->
        IF \E k \in 1..Len(idx) : idx[k] = i
        THEN rows[CHOOSE k \in 1..Len(idx) :
                    /\ idx[k] = i
                    /\ \A k2 \in 1..Len(idx) : idx[k2] = i => k2 <= k]
        ELSE cells[i]]

\* astype(np.int) on a cell of halves: truncation toward zero.
IntCastCell(v) == IF v >= 0 THEN 2 * (v \div 2) ELSE 0 - 2 * ((0 - v) \div 2)

IntCast(cells) ==
    [i \in DOMAIN cells |-> [j \in DOMAIN cells[i] |-> IntCastCell(cells[i][j])]]

(***************************************************************************)
(* Instances. cls is the Python class of the instance: the base class, or   *)
(* a subclass that overrides corrupt.                                       *)
(***************************************************************************)
Classes == {"NoiseModel", "ShiftNoise"}

Unset == <<>>
Some(v) == <<v>>

ValidShapes == {<<r, c>> : r \in 1..MaxRows, c \in 1..MaxCols}
InvalidShapes == {<<2>>, <<0, 1>>, <<2, 0 - 1>>, <<1, 1, 1>>}
ShapeArgs == ValidShapes \cup InvalidShapes

Probs == {<<0 - 1, 10>>, <<0, 1>>, <<1, 2>>, <<1, 1>>, <<11, 10>>}

\* The probabilities of the sampling specification, all valid.
SampleProbs == {<<0, 1>>, <<3, 10>>, <<1, 2>>, <<1, 1>>}
SampleShapes == {<<r, 1>> : r \in 1..MaxSampleRows}

\* Argument lists for feature_importance: the empty default, and for each
\* length the identity order, the reversed order and a list of duplicates.
FIArgs ==
    {<<>>} \cup UNION {{Range(n), [k \in 1..n |-> n - k], [k \in 1..n |-> 0]} :
                        n \in 1..MaxCols}

\* NoiseModel.corrupt and its override. The result is [raised, rows].
ShiftCell(v) == v + 20

Corrupt(cls, rows) ==
    IF cls = "NoiseModel"
    THEN [raised |-> TRUE, rows |-> <<>>]
    ELSE [raised |-> FALSE,
          rows |-> [k \in DOMAIN rows |->
                      [j \in DOMAIN rows[k] |-> ShiftCell(rows[k][j])]]]

\* The shape test shared by __init__ and reshape.
ShapeInvalid(shape) == Len(shape) # 2 \/ shape[1] <= 0 \/ shape[2] <= 0

ProbabilityInvalid(p) == p[1] < 0 \/ p[1] > p[2]

\* Mutant of FeatureImportanceInvalid: only the length is compared.
FeatureImportanceLengthOnly(fi, shape) == Len(fi) # shape[2]

FeatureImportanceInvalid(fi, shape) == Sorted(fi) # Range(shape[2])

\* feature_importance == [] reads shape[1] before the shape has been checked.
DefaultRaises(shape, fi) == fi = <<>> /\ Len(shape) < 2

DefaultFI(shape, fi) == IF fi = <<>> THEN Range(shape[2]) ELSE fi

IndexErr == "IndexError"
BadShape == "ValueError: Invalid shape"
BadProbability == "ValueError: Invalid probability"
BadFeatureImportance == "ValueError: Invalid feature_importance"
Mismatch == "ValueError: The input does not match the shape of the Noise Model"
NotImplemented == "NotImplementedError"
NoError == ""

\* What __init__ raises, in the order in which it runs.
InitError(shape, probability, fi) ==
    IF DefaultRaises(shape, fi) THEN IndexErr
    ELSE IF ShapeInvalid(shape) THEN BadShape
    ELSE IF ProbabilityInvalid(probability) THEN BadProbability
    ELSE IF FeatureImportanceInvalid(DefaultFI(shape, fi), shape)
         THEN BadFeatureImportance
    ELSE NoError

NewModel(cls, shape, probability, fi, flag) ==
    [cls |-> cls, shape |-> shape, probability |-> probability,
     feature_importance |-> DefaultFI(shape, fi), one_cell_flag |-> flag,
     argselect |-> Unset]

\* What reshape raises: the same checks without the probability.
ReshapeError(shape, fi) ==
    IF DefaultRaises(shape, fi) THEN IndexErr
    ELSE IF ShapeInvalid(shape) THEN BadShape
    ELSE IF FeatureImportanceInvalid(DefaultFI(shape, fi), shape)
         THEN BadFeatureImportance
    ELSE NoError

\* copy.deepcopy(self): a new object holding copies of every attribute.
DeepCopy(self) == self

Reshaped(self, shape, fi) ==
    [DeepCopy(self) EXCEPT !.shape = shape,
                           !.feature_importance = DefaultFI(shape, fi)]

(***************************************************************************)
(* apply                                                                    *)
(***************************************************************************)
\* Mutant of ShapeMismatch: only the row counts are compared.
RowCountMismatch(self, X) == X.nrows # self.shape[1]

\* xshape != self.shape
ShapeMismatch(self, X) == NpShape(X) # self.shape

\* Ns = int(round(N*self.probability))
SampleCount(N, probability) == PyRound(N * probability[1], probability[2])

\* Mutant of ToCorrupt: the slice takes one index too many.
ToCorruptInclusive(all_indices, Ns) == PySlice(all_indices, 0, Ns + 1)

\* tocorrupt = all_indices[0:Ns]
ToCorrupt(all_indices, Ns) == PySlice(all_indices, 0, Ns)

\* Mutant of Clean: the slice starts one index too late.
CleanOffByOne(all_indices, Ns) == PySliceFrom(all_indices, Ns + 1)

\* clean = all_indices[Ns:]
Clean(all_indices, Ns) == PySliceFrom(all_indices, Ns)

\* Mutant of SetArgselect: the attribute is only set when it is missing.
KeepArgselect(self, tocorrupt) ==
    IF self.argselect = Unset THEN Some(tocorrupt) ELSE self.argselect

\* self.argselect = tocorrupt
SetArgselect(self, tocorrupt) == Some(tocorrupt)

\* Which write produced each row of the output: "corrupt", "clean" or "none".
\* A bookkeeping of the two slice assignments, in their order.
Provenance(N, tocorrupt, clean) ==
    [i \in 0..(N - 1) |->
        IF i \in Elems(clean) THEN "clean"
        ELSE IF i \in Elems(tocorrupt) THEN "corrupt"
        ELSE "none"]

\* corrupt_data.astype(np.int), for an ndarray only
CastOutput(X, int_cast, cells) ==
    IF int_cast /\ X.kind # "DataFrame" THEN IntCast(cells) ELSE cells

\* Everything one call self.apply(X, int_cast) does, given what the shuffle
\* leaves in all_indices: the exception raised (if any), the value of
\* self.argselect afterwards, the two values returned, and a trace of the calls
\* made on the way.
ApplyEffect(self, X, int_cast, shuffled) ==
    IF ShapeMismatch(self, X)
    THEN [error |-> Mismatch, argselect |-> self.argselect,
          corrupt_data |-> <<>>, retX |-> NoData, Xafter |-> X,
          drew |-> FALSE, all_indices |-> <<>>,
          corruptCalls |-> 0, corruptArg |-> <<>>, corruptRet |-> <<>>,
          producedBy |-> <<>>]
    ELSE
      LET N == self.shape[1]
          Ns == SampleCount(N, self.probability)
          tocorrupt == ToCorrupt(shuffled, Ns)
          clean == Clean(shuffled, Ns)
          arg == ReadRows(X.cells, tocorrupt)
          res == Corrupt(self.cls, arg)
          step1 == WriteRows(EmptyLike(X), tocorrupt, res.rows)
          step2 == WriteRows(step1, clean, ReadRows(X.cells, clean))
      IN  IF res.raised
          THEN [error |-> NotImplemented, argselect |-> SetArgselect(self, tocorrupt),
                corrupt_data |-> <<>>, retX |-> NoData, Xafter |-> X,
                drew |-> TRUE, all_indices |-> shuffled,
                corruptCalls |-> 1, corruptArg |-> arg, corruptRet |-> <<>>,
                producedBy |-> <<>>]
          ELSE [error |-> NoError, argselect |-> SetArgselect(self, tocorrupt),
                corrupt_data |-> CastOutput(X, int_cast, step2), retX |-> X,
                Xafter |-> X,
                drew |-> TRUE, all_indices |-> shuffled,
                corruptCalls |-> 1, corruptArg |-> arg, corruptRet |-> res.rows,
                producedBy |-> Provenance(N, tocorrupt, clean)]

(***************************************************************************)
(* The record of the most recent call.                                      *)
(***************************************************************************)
NoCall ==
    [op |-> "none", self |-> 0, ret |-> 0, error |-> NoError,
     argShape |-> <<>>, argProbability |-> <<0, 1>>, argFI |-> <<>>,
     defaulted |-> FALSE,
     X |-> NoData, int_cast |-> FALSE,
     hadArgselect |-> FALSE, sameArgselect |-> FALSE]

\* The trace of the most recent apply; NoEffect after any other call.
NoEffect ==
    [error |-> NoError, argselect |-> Unset,
     corrupt_data |-> <<>>, retX |-> NoData, Xafter |-> NoData,
     drew |-> FALSE, all_indices |-> <<>>,
     corruptCalls |-> 0, corruptArg |-> <<>>, corruptRet |-> <<>>,
     producedBy |-> <<>>]

(***************************************************************************)
(* The caller holds two names: m1, bound by the constructor, and m2, bound  *)
(* by reshape. models is <<>>, <<m1>> or <<m1, m2>>.                        *)
(***************************************************************************)
Init ==
    /\ models = <<>>
    /\ last = NoCall
    /\ effect = NoEffect

\* m1 = cls(shape, probability, feature_importance, one_cell_flag)
Construct(cls, shape, probability, fi, flag) ==
    /\ models = <<>>
    /\ effect' = NoEffect
    /\ LET err == InitError(shape, probability, fi)
       IN  /\ models' = IF err = NoError
                        THEN <<NewModel(cls, shape, probability, fi, flag)>>
                        ELSE models
           /\ last' = [NoCall EXCEPT !.op = "construct", !.error = err,
                                     !.ret = IF err = NoError THEN 1 ELSE 0,
                                     !.argShape = shape,
                                     !.argProbability = probability,
                                     !.argFI = fi,
                                     !.defaulted = (fi = <<>>)]

\* models[m].apply(X, int_cast), the shuffle leaving `shuffled`
Apply(m, X, int_cast, shuffled) ==
    /\ effect' = ApplyEffect(models[m], X, int_cast, shuffled)
    /\ models' = [models EXCEPT ![m].argselect = effect'.argselect]
    /\ last' = [NoCall EXCEPT !.op = "apply", !.self = m,
                              !.error = effect'.error, !.X = X,
                              !.int_cast = int_cast,
                              !.hadArgselect = (models[m].argselect # Unset),
                              !.sameArgselect =
                                  (models[m].argselect = effect'.argselect)]

\* Mutant of Reshape: no deepcopy, the attributes of self are overwritten and
\* self is returned.
ReshapeInPlace(m, shape, fi) ==
    LET err == ReshapeError(shape, fi)
    IN  /\ effect' = NoEffect
        /\ models' = IF err = IndexErr THEN models
                     ELSE [models EXCEPT ![m] = Reshaped(models[m], shape, fi)]
        /\ last' = [NoCall EXCEPT !.op = "reshape", !.self = m,
                                  !.error = err,
                                  !.ret = IF err = NoError THEN m ELSE 0,
                                  !.defaulted = (fi = <<>>)]

\* m2 = models[m].reshape(shape, feature_importance)
Reshape(m, shape, fi) ==
    LET err == ReshapeError(shape, fi)
    IN  /\ effect' = NoEffect
        /\ models' = IF err = NoError
                     THEN <<models[1], Reshaped(models[m], shape, fi)>>
                     ELSE models
        /\ last' = [NoCall EXCEPT !.op = "reshape", !.self = m,
                                  !.error = err,
                                  !.ret = IF err = NoError THEN 2 ELSE 0,
                                  !.defaulted = (fi = <<>>)]

\* A caller's assignment models[m].<field> = value.
Fields == {"shape", "probability", "feature_importance", "one_cell_flag", "argselect"}

FieldValue(field) ==
    CASE field = "shape" -> <<1, 1>>
      [] field = "probability" -> <<1, 1>>
      [] field = "feature_importance" -> <<0>>
      [] field = "one_cell_flag" -> TRUE
      [] field = "argselect" -> Some(<<>>)

Assign(m, field) ==
    /\ models' = [models EXCEPT ![m] =
                    CASE field = "shape" -> [@ EXCEPT !.shape = FieldValue(field)]
                      [] field = "probability" ->
                             [@ EXCEPT !.probability = FieldValue(field)]
                      [] field = "feature_importance" ->
                             [@ EXCEPT !.feature_importance = FieldValue(field)]
                      [] field = "one_cell_flag" ->
                             [@ EXCEPT !.one_cell_flag = FieldValue(field)]
                      [] field = "argselect" ->
                             [@ EXCEPT !.argselect = FieldValue(field)]]
    /\ last' = [NoCall EXCEPT !.op = "assign", !.self = m]
    /\ effect' = NoEffect

DoConstruct ==
    \E cls \in Classes, shape \in ShapeArgs, probability \in Probs,
       fi \in FIArgs, flag \in BOOLEAN :
        Construct(cls, shape, probability, fi, flag)

\* apply with a dataset of the instance's own shape
DoApplyMatching ==
    \E m \in 1..Len(models) :
        \E X \in {MkData("ndarray", models[m].shape[1], models[m].shape[2], 0)} :
            \E shuffled \in Shuffles(models[m].shape[1]) :
                Apply(m, X, FALSE, shuffled)

\* apply with any dataset, of the instance's shape or not
DoApply ==
    \E m \in 1..Len(models), X \in Datasets, int_cast \in BOOLEAN :
        \E shuffled \in (IF ShapeMismatch(models[m], X) THEN {<<>>}
                          ELSE Shuffles(models[m].shape[1])) :
            Apply(m, X, int_cast, shuffled)

\* the first apply on an instance
DoApplyOnce ==
    \E m \in 1..Len(models) :
        \E X \in {MkData("ndarray", models[m].shape[1], models[m].shape[2], 0)} :
            \E shuffled \in Shuffles(models[m].shape[1]) :
                /\ models[m].argselect = Unset
                /\ Apply(m, X, FALSE, shuffled)

\* the constructor with the default feature_importance and one_cell_flag
DoConstructPlain ==
    \E cls \in Classes, shape \in ShapeArgs, probability \in Probs :
        Construct(cls, shape, probability, <<>>, FALSE)

\* the constructor with valid arguments and up to MaxSampleRows rows
DoConstructSample ==
    \E shape \in SampleShapes, probability \in SampleProbs :
        Construct("ShiftNoise", shape, probability, <<>>, FALSE)

\* m2 = m1.reshape(shape, feature_importance)
DoReshape ==
    \E shape \in ShapeArgs, fi \in FIArgs :
        /\ Len(models) >= 1
        /\ Reshape(1, shape, fi)

\* an assignment to an attribute of m2
DoAssign ==
    \E field \in Fields :
        /\ Len(models) = 2
        /\ Assign(2, field)

Next == DoConstruct \/ DoApplyMatching \/ DoReshape

Spec == Init /\ [][Next]_vars

NextAssign == Next \/ DoAssign

SpecAssign == Init /\ [][NextAssign]_vars

NextApply == DoConstructPlain \/ DoApply

SpecApply == Init /\ [][NextApply]_vars

NextSample == DoConstructSample \/ DoApplyOnce

SpecSample == Init /\ [][NextSample]_vars

(***************************************************************************)
(* Properties.                                                              *)
(***************************************************************************)
Applied == last.op = "apply"

Returned == Applied /\ last.error = NoError

\* The integer cast changes the output: it was asked for, on an ndarray.
CastApplies == last.int_cast /\ last.X.kind # "DataFrame"

\* The rows selected by the most recent apply, as recorded on the instance.
Selected == models[last.self].argselect[1]

\* C1: after apply returns (no integer cast), the output has the rows of the
\* input, and every row whose index is not in argselect is, at the same
\* position, cell for cell the row of the input.
CleanRowsVerbatim ==
    (Returned /\ ~CastApplies) =>
        /\ DOMAIN effect.corrupt_data = DOMAIN last.X.cells
        /\ \A i \in DOMAIN last.X.cells :
              i \notin Elems(Selected) => effect.corrupt_data[i] = last.X.cells[i]

\* C1 witness: an apply returned with some rows sampled and some rows clean,
\* on a dataset that holds a cell that is not a whole number.
CleanRowsVerbatimWitness ==
    /\ Returned /\ ~CastApplies
    /\ Len(Selected) >= 1
    /\ Len(Selected) < last.X.nrows
    /\ \E i \in DOMAIN last.X.cells : \E j \in DOMAIN last.X.cells[i] :
          i \notin Elems(Selected) /\ last.X.cells[i][j] % 2 = 1

\* C2: after apply returns, argselect is set to exactly the indices of the
\* output rows that the corrupt result was written to and that no later write
\* replaced, whatever argselect held before the call.
MaskIsGroundTruth ==
    Returned =>
        /\ models[last.self].argselect # Unset
        /\ Elems(Selected) =
              {i \in DOMAIN effect.producedBy : effect.producedBy[i] = "corrupt"}

\* C2 witness: a second apply returned on an instance and left a different,
\* non-empty argselect.
MaskIsGroundTruthWitness ==
    /\ Returned
    /\ last.hadArgselect /\ ~last.sameArgselect
    /\ Len(Selected) >= 1

\* C3: after apply returns on an instance with N rows and probability p in
\* [0,1], argselect holds pairwise distinct indices, as many as the integer
\* nearest to N*p (a tie going up): none for p = 0, N for p = 1, and 2 for
\* N = 5, p = 3/10.
SampleCountLaw ==
    (Returned /\ ~ProbabilityInvalid(models[last.self].probability)) =>
        LET N == models[last.self].shape[1]
            p == models[last.self].probability
            k == Len(Selected)
            twiceOff == 2 * p[2] * k - 2 * N * p[1]
        IN  /\ 0 - p[2] < twiceOff /\ twiceOff <= p[2]
            /\ \A a, b \in 1..k : Selected[a] = Selected[b] => a = b
            /\ p[1] = 0 => k = 0
            /\ p[1] = p[2] => k = N
            /\ (N = 5 /\ p = <<3, 10>>) => k = 2

\* C3 witness: apply returned on a 5-row instance with probability 3/10.
SampleCountLawWitness ==
    /\ Returned
    /\ models[last.self].shape[1] = 5
    /\ models[last.self].probability = <<3, 10>>
    /\ Len(Selected) = 2

\* An apply on an instance of probability 0 with a dataset of its shape and
\* no integer cast.
ZeroProbabilityCall ==
    /\ Applied
    /\ models[last.self].probability[1] = 0
    /\ ~ShapeMismatch(models[last.self], last.X)
    /\ ~CastApplies

\* C4 as claimed: every such call returns, with an empty argselect and an
\* output equal to the input, whatever the class of the instance.
ZeroProbabilityAlwaysReturnsInput ==
    ZeroProbabilityCall =>
        /\ last.error = NoError
        /\ Selected = <<>>
        /\ effect.corrupt_data = last.X.cells

\* C4: every such call sets argselect to the empty list and invokes corrupt
\* once, on a sub-dataset of no rows; when corrupt returns for no rows the call
\* returns the input unchanged, and when corrupt raises so does the call.
ZeroProbabilityReturnsInputIfCorruptReturns ==
    ZeroProbabilityCall =>
        /\ Selected = <<>>
        /\ effect.corruptCalls = 1 /\ effect.corruptArg = <<>>
        /\ IF Corrupt(models[last.self].cls, <<>>).raised
           THEN last.error = NotImplemented
           ELSE /\ last.error = NoError
                /\ effect.corrupt_data = last.X.cells
                /\ effect.retX = last.X

\* C4 witness: such a call returned on a dataset of at least two rows.
ZeroProbabilityWitness ==
    /\ ZeroProbabilityCall
    /\ last.error = NoError
    /\ last.X.nrows >= 2
    /\ effect.corrupt_data = last.X.cells

\* C5: a reshape call, returning or raising, leaves m1 as it was, and so do
\* an apply on m2 and an assignment to an attribute of m2.
ReshapeLeavesOriginal ==
    [][(Len(models) >= 1 /\ (last'.op = "reshape" \/ last'.self = 2)) =>
          models'[1] = models[1]]_vars

\* C5 witness: an apply on m2 has set its argselect, m1 holding an argselect
\* of its own and another shape.
ReshapeLeavesOriginalWitness ==
    /\ Len(models) = 2
    /\ Applied /\ last.self = 2
    /\ models[1].argselect # Unset
    /\ models[2].argselect # models[1].argselect
    /\ models[2].shape # models[1].shape

\* C6: an apply with a dataset whose dimensions differ from the shape raises
\* the mismatch error, draws no shuffle, does not call corrupt, and leaves
\* every instance (argselect included, set or missing) and the dataset as
\* they were.
MismatchTouchesNothing ==
    [][(last'.op = "apply" /\ NpShape(last'.X) # models[last'.self].shape) =>
          /\ last'.error = Mismatch
          /\ models' = models
          /\ ~effect'.drew /\ effect'.all_indices = <<>>
          /\ effect'.corruptCalls = 0
          /\ effect'.Xafter = last'.X]_vars

\* C6 witness: the mismatch error on an instance whose argselect an earlier
\* apply had set.
MismatchTouchesNothingWitness ==
    /\ Applied /\ last.error = Mismatch
    /\ last.hadArgselect
    /\ Len(Selected) >= 1

\* A shape as the data model wants it: a pair of strictly positive numbers.
PositivePair(shape) == Len(shape) = 2 /\ \A k \in 1..Len(shape) : shape[k] > 0

\* C7 as claimed: the constructor raises the shape error for every shape that
\* is not a positive pair, whatever the other arguments, and the probability
\* error for a positive pair with a probability outside [0,1].
ConstructionReportsFirstViolation ==
    last.op = "construct" =>
        /\ ~PositivePair(last.argShape) => last.error = BadShape
        /\ (/\ PositivePair(last.argShape)
            /\ (\/ last.argProbability[1] < 0
                \/ last.argProbability[1] > last.argProbability[2]))
              => last.error = BadProbability

IsPermutation(fi, n) ==
    /\ Len(fi) = n
    /\ \A v \in 0..(n - 1) : \E k \in 1..Len(fi) : fi[k] = v

\* C8: every instance has a shape of two positive numbers, a probability in
\* [0,1] and a feature_importance that is a permutation of its own columns,
\* the identity when the argument was empty; an instance returned by reshape
\* has the probability and the one_cell_flag of the instance it was made from.
ConfigurationInvariants ==
    /\ \A i \in 1..Len(models) :
          /\ PositivePair(models[i].shape)
          /\ 0 <= models[i].probability[1]
          /\ models[i].probability[1] <= models[i].probability[2]
          /\ IsPermutation(models[i].feature_importance, models[i].shape[2])
    /\ (last.ret >= 1 /\ last.defaulted) =>
          \A k \in 1..Len(models[last.ret].feature_importance) :
              models[last.ret].feature_importance[k] = k - 1
    /\ (last.op = "reshape" /\ last.ret >= 1) =>
          /\ models[last.ret].probability = models[last.self].probability
          /\ models[last.ret].one_cell_flag = models[last.self].one_cell_flag

\* C8 witness: reshape returned an instance of another shape with a
\* feature_importance that is not the identity, from an instance whose flag is
\* set and whose probability is 1/2.
ConfigurationInvariantsWitness ==
    /\ last.op = "reshape" /\ last.ret = 2
    /\ models[2].shape # models[1].shape
    /\ models[2].feature_importance = <<1, 0>>
    /\ models[1].one_cell_flag
    /\ models[1].probability = <<1, 2>>

\* C9: when apply returns (no integer cast), corrupt was called once, on the
\* rows at the selected indices in their order, and the k-th row of its result
\* is the output row at the k-th selected index; for the row-wise override the
\* output row at a selected index is that row of the input, shifted.
CorruptedRowsWrittenBack ==
    (Returned /\ ~CastApplies) =>
        /\ effect.corruptCalls = 1
        /\ Len(effect.corruptArg) = Len(Selected)
        /\ Len(effect.corruptRet) = Len(Selected)
        /\ \A k \in 1..Len(Selected) :
              /\ effect.corruptArg[k] = last.X.cells[Selected[k]]
              /\ effect.corrupt_data[Selected[k]] = effect.corruptRet[k]
              /\ models[last.self].cls = "ShiftNoise" =>
                    effect.corrupt_data[Selected[k]] =
                        [j \in DOMAIN last.X.cells[Selected[k]] |->
                            ShiftCell(last.X.cells[Selected[k]][j])]

\* C9 witness: apply returned with two rows selected in descending order.
CorruptedRowsWrittenBackWitness ==
    /\ Returned /\ ~CastApplies
    /\ Len(Selected) >= 2
    /\ Selected[1] > Selected[2]

\* C10 as claimed: on every instance that has an argselect, each index in it
\* is a row index of that instance's shape.
SampledIndicesWithinShape ==
    \A i \in 1..Len(models) :
        models[i].argselect # Unset =>
            \A v \in Elems(models[i].argselect[1]) :
                0 <= v /\ v < models[i].shape[1]

====
